---- MODULE Spec2Model ----
(***************************************************************************)
(* Small World Simulator (src/app.py): construction of a Watts-Strogatz    *)
(* network, the lazy breadth-first generator bfs_generator that drives the *)
(* animation, and the depth histogram bfs_spread.                          *)
(*                                                                         *)
(* A graph is the adjacency of a networkx Graph: for every node the        *)
(* sequence of its neighbours in insertion order, which is the order       *)
(* G.neighbors(node) iterates in.                                          *)
(***************************************************************************)
EXTENDS Integers, Sequences, FiniteSets, TLC

VARIABLES
    pc,         \* position in the script: "ring", "rewire", "animate", "spread", "done"
    key,        \* which entry of `networks` is followed: "Regular", "Small-World", "Random"
    n,          \* nodes (population slider)
    k,          \* neighbours (average friends slider)
    adj,        \* the graph: node -> sequence of neighbours in insertion order
    rj, ru,     \* position of the rewiring loops of watts_strogatz_graph
    start,      \* start argument of bfs_generator
    genState,   \* generator object: "created", "suspended" (at the yield), "closed"
    heap,       \* set objects of the generator: heap[1] is `visited`, the others are yielded sets
    queue,      \* the generator's deque
    snapshots,  \* references (indices of heap) of the sets yielded so far, in order
    expanded,   \* the node dequeued before each yield, in order
    lastPull,   \* outcome of the last next(): "none", "yield", "stop"
    stops,      \* number of StopIterations raised by the generator, counted up to PullsPerIteration
    sState,     \* bfs_spread: "idle", "running", "returned"
    sVisited,   \* bfs_spread's visited set
    sQueue,     \* bfs_spread's deque of <<node, depth>>
    levels,     \* bfs_spread's dict, as the sequence of <<depth, count>> in insertion order
    frames,     \* per network, the `visited` set last handed to plot_graph ({} before any frame)
    run,        \* 1 in the first application of the traversals to a graph, 2 in the second
    prevSnaps,  \* the sets yielded by the first application, in order
    prevLevels, \* the dict returned by the first application
    nets,       \* animation loop: `networks`, per key the graph
    gens,       \* animation loop: `bfs_gens`, per key the generator's state, visited and queue
    aDone,      \* animation loop: `done`
    aRound,     \* animation loop: the index `_` of `for _ in range(5)`
    aKey,       \* animation loop: position of `key` in the order of `networks`
    aPc         \* animation loop: "off", "loop" (inside the while), "exited"

vars == <<pc, key, n, k, adj, rj, ru, start, genState, heap, queue, snapshots,
          expanded, lastPull, stops, sState, sVisited, sQueue, levels,
          frames, run, prevSnaps, prevLevels, nets, gens, aDone, aRound, aKey, aPc>>

buildVars == <<key, n, k, adj, rj, ru>>
genVars == <<start, genState, heap, queue, snapshots, expanded, lastPull, stops>>
spreadVars == <<sState, sVisited, sQueue, levels>>
rerunVars == <<run, prevSnaps, prevLevels>>
loopVars == <<nets, gens, aDone, aRound, aKey, aPc>>

\* ---------------------------------------------------------------- bounds
\* Smallest and largest population of a rewired network of the model.
MinN == 4
MaxN == 6
\* Largest number of ring edges, n * (k // 2), of a rewired network of the model.
MaxRewEdges == 6
\* Largest population of the Regular (p = 0.0) network of the model.
MaxRegN == 20
\* Largest node count of the arbitrary graphs the traversals are applied to.
MaxFnN == 4
\* Animation loop: largest ring and largest arbitrary graph among the three networks.
MaxAnimRing == 11
MaxAnimSmall == 2

\* ---------------------------------------------------------------- sliders
MinK == 2
MaxK == 10

\* for _ in range(5): pulls on every generator in one iteration of the animation loop.
PullsPerIteration == 5

Keys == {"Regular", "Small-World", "Random"}

\* ---------------------------------------------------------------- nx.Graph
Nodes(nn) == 0 .. (nn - 1)

EmptyGraph(nn) == [u \in Nodes(nn) |-> <<>>]

SeqToSet(s) == {s[i] : i \in 1 .. Len(s)}

Neighbors(a, u) == SeqToSet(a[u])

\* set(G.nodes())
AllNodes(a) == DOMAIN a

HasEdge(a, u, v) == v \in Neighbors(a, u)

Degree(a, u) == Len(a[u])

\* G.add_edge(u, v): a new key goes to the end of both adjacency dicts.
AddEdge(a, u, v) ==
    IF HasEdge(a, u, v) THEN a
    ELSE IF u = v THEN [a EXCEPT ![u] = Append(@, v)]
    ELSE [a EXCEPT ![u] = Append(@, v), ![v] = Append(@, u)]

\* G.remove_edge(u, v)
RemoveEdge(a, u, v) ==
    [a EXCEPT ![u] = SelectSeq(@, LAMBDA x : x # v),
              ![v] = SelectSeq(@, LAMBDA x : x # u)]

\* G.add_edges_from(zip(nodes, targets)) with targets = nodes[j:] + nodes[0:j]:
\* the edges (u, u+j mod n) for u = 0..n-1, added in that order.
RECURSIVE AddEdgesFrom(_, _, _, _)
AddEdgesFrom(a, nn, j, u) ==
    IF u = nn THEN a
    ELSE AddEdgesFrom(AddEdge(a, u, (u + j) % nn), nn, j, u + 1)

\* The first loop of watts_strogatz_graph: for j in range(1, k // 2 + 1).
RECURSIVE AddRing(_, _, _, _)
AddRing(a, nn, half, j) ==
    IF j > half THEN a
    ELSE AddRing(AddEdgesFrom(a, nn, j, 0), nn, half, j + 1)

RingLattice(nn, kk) == AddRing(EmptyGraph(nn), nn, kk \div 2, 1)

\* Outcomes of `seed.random() < p` for the p each network is built with:
\* 0.0 for Regular, the slider's 0.01..1.0 for Small-World, 1.0 for Random.
RandomBelowP(kind) ==
    CASE kind = "Regular" -> {FALSE}
      [] kind = "Random" -> {TRUE}
      [] OTHER -> {TRUE, FALSE}

\* G.remove_edge(u, v); G.add_edge(u, w)
Rewire(a, u, v, w) == AddEdge(RemoveEdge(a, u, v), u, w)

\* ---------------------------------------------------------------- build
Configs ==
    {c \in [n : MinN .. MaxRegN, k : MinK .. MaxK, key : Keys] :
        /\ c.k < c.n
        /\ (c.key # "Regular" => c.n <= MaxN /\ c.n * (c.k \div 2) <= MaxRewEdges)}

GenIdle ==
    /\ genState = "created"
    /\ heap = <<>>
    /\ queue = <<>>
    /\ snapshots = <<>>
    /\ expanded = <<>>
    /\ lastPull = "none"
    /\ stops = 0

SpreadIdle ==
    /\ sState = "idle"
    /\ sVisited = {}
    /\ sQueue = <<>>
    /\ levels = <<>>

\* Nothing drawn yet, first application of the traversals.
FramesIdle == frames = [x \in Keys |-> {}]

RerunIdle ==
    /\ run = 1
    /\ prevSnaps = <<>>
    /\ prevLevels = <<>>

\* The animation loop over the three generators is not followed.
LoopIdle ==
    /\ nets = [x \in Keys |-> <<>>]
    /\ gens = [x \in Keys |-> [state |-> "created", visited |-> {}, queue |-> <<>>]]
    /\ aDone = FALSE
    /\ aRound = 0
    /\ aKey = 1
    /\ aPc = "off"

Init ==
    /\ pc = "ring"
    /\ \E c \in Configs : n = c.n /\ k = c.k /\ key = c.key
    /\ adj = EmptyGraph(n)
    /\ rj = 1
    /\ ru = 0
    /\ start = 0
    /\ GenIdle
    /\ SpreadIdle
    /\ FramesIdle
    /\ RerunIdle
    /\ LoopIdle

\* watts_strogatz_graph, one iteration of the first loop (the ring phase).
RingStep ==
    /\ pc = "ring"
    /\ adj' = AddEdgesFrom(adj, n, rj, 0)
    /\ IF rj = k \div 2 THEN pc' = "rewire" /\ rj' = 1
                         ELSE pc' = pc /\ rj' = rj + 1
    /\ UNCHANGED <<key, n, k, ru>>
    /\ UNCHANGED genVars
    /\ UNCHANGED spreadVars
    /\ UNCHANGED frames
    /\ UNCHANGED rerunVars
    /\ UNCHANGED loopVars

\* RewireOutcomes without the test `w == u or G.has_edge(u, w)`.
RewireOutcomesNoCheck(a, nn, kind, u, v) ==
    {a2 \in {a} \cup {Rewire(a, u, v, w) : w \in Nodes(nn)} :
        \E r \in RandomBelowP(kind) :
            IF ~r THEN a2 = a
            ELSE \E w \in Nodes(nn) : a2 = Rewire(a, u, v, w)}

\* The graph after one iteration of the rewiring loops on the edge (u, v).
RewireOutcomes(a, nn, kind, u, v) ==
    LET valid(w) == ~(w = u \/ HasEdge(a, u, w))
    IN  {a2 \in {a} \cup {Rewire(a, u, v, w) : w \in Nodes(nn)} :
            \E r \in RandomBelowP(kind) :
                IF ~r THEN a2 = a
                ELSE \E w \in Nodes(nn) :
                        IF valid(w) THEN a2 = Rewire(a, u, v, w)
                        ELSE \E w2 \in Nodes(nn) :
                                IF Degree(a, u) >= nn - 1 THEN a2 = a
                                ELSE valid(w2) /\ a2 = Rewire(a, u, v, w2)}

\* watts_strogatz_graph, one iteration of the second pair of loops.
RewireStep ==
    /\ pc = "rewire"
    /\ rj <= k \div 2
    /\ adj' \in RewireOutcomes(adj, n, key, ru, (ru + rj) % n)
    /\ IF ru = n - 1 THEN rj' = rj + 1 /\ ru' = 0
                     ELSE rj' = rj /\ ru' = ru + 1
    /\ UNCHANGED <<pc, key, n, k>>
    /\ UNCHANGED genVars
    /\ UNCHANGED spreadVars
    /\ UNCHANGED frames
    /\ UNCHANGED rerunVars
    /\ UNCHANGED loopVars

\* bfs_gens = {k: bfs_generator(g) ...}: the generator object is created, not started.
CreateGenerator ==
    /\ pc = "rewire"
    /\ rj > k \div 2
    /\ pc' = "animate"
    /\ UNCHANGED buildVars
    /\ UNCHANGED genVars
    /\ UNCHANGED spreadVars
    /\ UNCHANGED frames
    /\ UNCHANGED rerunVars
    /\ UNCHANGED loopVars

\* ---------------------------------------------------------------- bfs_generator
\* Expand with queue.append(neighbor) left out.
RECURSIVE ExpandNoEnqueue(_, _, _)
ExpandNoEnqueue(nbrs, vis, q) ==
    IF nbrs = <<>> THEN [visited |-> vis, queue |-> q]
    ELSE ExpandNoEnqueue(Tail(nbrs), vis \cup {Head(nbrs)}, q)

\* Expand leaving the for loop after the first unvisited neighbour.
RECURSIVE ExpandFirstOnly(_, _, _)
ExpandFirstOnly(nbrs, vis, q) ==
    IF nbrs = <<>> THEN [visited |-> vis, queue |-> q]
    ELSE IF Head(nbrs) \notin vis
         THEN [visited |-> vis \cup {Head(nbrs)}, queue |-> Append(q, Head(nbrs))]
         ELSE ExpandFirstOnly(Tail(nbrs), vis, q)

\* Expand with queue.appendleft(neighbor).
RECURSIVE ExpandLifo(_, _, _)
ExpandLifo(nbrs, vis, q) ==
    IF nbrs = <<>> THEN [visited |-> vis, queue |-> q]
    ELSE IF Head(nbrs) \notin vis
         THEN ExpandLifo(Tail(nbrs), vis \cup {Head(nbrs)}, <<Head(nbrs)>> \o q)
         ELSE ExpandLifo(Tail(nbrs), vis, q)

\* Expand with visited.add(neighbor) left out.
RECURSIVE ExpandNoMark(_, _, _)
ExpandNoMark(nbrs, vis, q) ==
    IF nbrs = <<>> THEN [visited |-> vis, queue |-> q]
    ELSE IF Head(nbrs) \notin vis
         THEN ExpandNoMark(Tail(nbrs), vis, Append(q, Head(nbrs)))
         ELSE ExpandNoMark(Tail(nbrs), vis, q)

\* Expand over sorted(G.neighbors(node)).
RECURSIVE ExpandAscending(_, _, _)
ExpandAscending(nbrs, vis, q) ==
    IF nbrs = <<>> THEN [visited |-> vis, queue |-> q]
    ELSE LET m == CHOOSE x \in SeqToSet(nbrs) : \A y \in SeqToSet(nbrs) : x <= y
             rest == SelectSeq(nbrs, LAMBDA x : x # m)
         IN  IF m \notin vis
             THEN ExpandAscending(rest, vis \cup {m}, Append(q, m))
             ELSE ExpandAscending(rest, vis, q)

\* for neighbor in G.neighbors(node): if neighbor not in visited:
\*     visited.add(neighbor); queue.append(neighbor)
RECURSIVE Expand(_, _, _)
Expand(nbrs, vis, q) ==
    IF nbrs = <<>> THEN [visited |-> vis, queue |-> q]
    ELSE IF Head(nbrs) \notin vis
         THEN Expand(Tail(nbrs), vis \cup {Head(nbrs)}, Append(q, Head(nbrs)))
         ELSE Expand(Tail(nbrs), vis, q)

\* yield visited: the generator's own set object is handed out.
CopySetAlias(h, ref) == [heap |-> h, ref |-> ref]

\* visited.copy(): a new set object with the contents of the object at ref.
CopySet(h, ref) == [heap |-> Append(h, h[ref]), ref |-> Len(h) + 1]

\* The orders a hash-ordered container could give the elements of s.
PermsOf(s) ==
    {t \in [1 .. Len(s) -> SeqToSet(s)] : SeqToSet(t) = SeqToSet(s)}

\* GenYield iterating the neighbours in an order that differs from call to call.
GenYieldAnyOrder ==
    /\ pc = "animate"
    /\ genState \in {"created", "suspended"}
    /\ LET h0 == IF genState = "created" THEN <<{start}>> ELSE heap
           q0 == IF genState = "created" THEN <<start>> ELSE queue
       IN  /\ q0 # <<>>
           /\ \E nbrs \in PermsOf(adj[Head(q0)]) :
              LET node == Head(q0)
                  r == Expand(nbrs, h0[1], Tail(q0))
                  y == CopySet([h0 EXCEPT ![1] = r.visited], 1)
              IN  /\ heap' = y.heap
                  /\ queue' = r.queue
                  /\ snapshots' = Append(snapshots, y.ref)
                  /\ expanded' = Append(expanded, node)
                  /\ frames' = [frames EXCEPT ![key] = y.heap[y.ref]]
    /\ genState' = "suspended"
    /\ lastPull' = "yield"
    /\ UNCHANGED <<pc, start, stops>>
    /\ UNCHANGED buildVars
    /\ UNCHANGED spreadVars
    /\ UNCHANGED rerunVars
    /\ UNCHANGED loopVars

\* GenYield with node = queue[0] in place of queue.popleft().
GenYieldNoPop ==
    /\ pc = "animate"
    /\ genState \in {"created", "suspended"}
    /\ LET h0 == IF genState = "created" THEN <<{start}>> ELSE heap
           q0 == IF genState = "created" THEN <<start>> ELSE queue
       IN  /\ q0 # <<>>
           /\ LET node == Head(q0)
                  r == Expand(adj[node], h0[1], q0)
                  y == CopySet([h0 EXCEPT ![1] = r.visited], 1)
              IN  /\ heap' = y.heap
                  /\ queue' = r.queue
                  /\ snapshots' = Append(snapshots, y.ref)
                  /\ expanded' = Append(expanded, node)
                  /\ frames' = [frames EXCEPT ![key] = y.heap[y.ref]]
    /\ genState' = "suspended"
    /\ lastPull' = "yield"
    /\ UNCHANGED <<pc, start, stops>>
    /\ UNCHANGED buildVars
    /\ UNCHANGED spreadVars
    /\ UNCHANGED rerunVars
    /\ UNCHANGED loopVars

\* next(gen) on a generator that is not finished and whose queue is not empty:
\* one iteration of the while loop up to the yield. The first next() also runs
\* the line that creates visited and queue.
GenYield ==
    /\ pc = "animate"
    /\ genState \in {"created", "suspended"}
    /\ LET h0 == IF genState = "created" THEN <<{start}>> ELSE heap
           q0 == IF genState = "created" THEN <<start>> ELSE queue
       IN  /\ q0 # <<>>
           /\ LET node == Head(q0)
                  r == Expand(adj[node], h0[1], Tail(q0))
                  y == CopySet([h0 EXCEPT ![1] = r.visited], 1)
              IN  /\ heap' = y.heap
                  /\ queue' = r.queue
                  /\ snapshots' = Append(snapshots, y.ref)
                  /\ expanded' = Append(expanded, node)
                  /\ frames' = [frames EXCEPT ![key] = y.heap[y.ref]]
    /\ genState' = "suspended"
    /\ lastPull' = "yield"
    /\ UNCHANGED <<pc, start, stops>>
    /\ UNCHANGED buildVars
    /\ UNCHANGED spreadVars
    /\ UNCHANGED rerunVars
    /\ UNCHANGED loopVars

\* next(gen) resumed after the yield with an empty queue: the while loop ends,
\* the generator returns and next() raises StopIteration.
GenFinish ==
    /\ pc = "animate"
    /\ genState = "suspended"
    /\ queue = <<>>
    /\ genState' = "closed"
    /\ lastPull' = "stop"
    /\ stops' = stops + 1
    /\ frames' = [frames EXCEPT ![key] = AllNodes(adj)]
    /\ UNCHANGED <<pc, start, heap, queue, snapshots, expanded>>
    /\ UNCHANGED buildVars
    /\ UNCHANGED spreadVars
    /\ UNCHANGED rerunVars
    /\ UNCHANGED loopVars

\* GenStopAgain for a stream that starts over when pulled after its end.
GenStopAgainRestart ==
    /\ pc = "animate"
    /\ genState = "closed"
    /\ genState' = "created"
    /\ heap' = <<>>
    /\ queue' = <<>>
    /\ snapshots' = <<>>
    /\ expanded' = <<>>
    /\ lastPull' = "stop"
    /\ stops' = IF stops < PullsPerIteration THEN stops + 1 ELSE stops
    /\ frames' = [frames EXCEPT ![key] = AllNodes(adj)]
    /\ UNCHANGED <<pc, start>>
    /\ UNCHANGED buildVars
    /\ UNCHANGED spreadVars
    /\ UNCHANGED rerunVars
    /\ UNCHANGED loopVars

\* next(gen) on a finished generator raises StopIteration again.
GenStopAgain ==
    /\ pc = "animate"
    /\ genState = "closed"
    /\ genState' = "closed"
    /\ lastPull' = "stop"
    /\ stops' = IF stops < PullsPerIteration THEN stops + 1 ELSE stops
    /\ frames' = [frames EXCEPT ![key] = AllNodes(adj)]
    /\ UNCHANGED <<pc, start, heap, queue, snapshots, expanded>>
    /\ UNCHANGED buildVars
    /\ UNCHANGED spreadVars
    /\ UNCHANGED rerunVars
    /\ UNCHANGED loopVars

\* visited = next(bfs_gens[key])
GenNext == GenYield \/ GenFinish \/ GenStopAgain

\* ---------------------------------------------------------------- bfs_spread
\* LevelsPut as levels[depth] = 1.
LevelsPutOverwrite(lv, depth) ==
    IF \E i \in 1 .. Len(lv) : lv[i][1] = depth
    THEN [i \in 1 .. Len(lv) |-> IF lv[i][1] = depth THEN <<depth, 1>> ELSE lv[i]]
    ELSE Append(lv, <<depth, 1>>)

\* levels[depth] = levels.get(depth, 0) + 1 on an insertion-ordered dict.
LevelsPut(lv, depth) ==
    IF \E i \in 1 .. Len(lv) : lv[i][1] = depth
    THEN [i \in 1 .. Len(lv) |->
            IF lv[i][1] = depth THEN <<depth, lv[i][2] + 1>> ELSE lv[i]]
    ELSE Append(lv, <<depth, 1>>)

\* SpreadExpand with queue.append((n, depth)).
RECURSIVE SpreadExpandSameDepth(_, _, _, _)
SpreadExpandSameDepth(nbrs, vis, q, depth) ==
    IF nbrs = <<>> THEN [visited |-> vis, queue |-> q]
    ELSE IF Head(nbrs) \notin vis
         THEN SpreadExpandSameDepth(Tail(nbrs), vis \cup {Head(nbrs)},
                                    Append(q, <<Head(nbrs), depth>>), depth)
         ELSE SpreadExpandSameDepth(Tail(nbrs), vis, q, depth)

\* for n in G.neighbors(node): if n not in visited:
\*     visited.add(n); queue.append((n, depth+1))
RECURSIVE SpreadExpand(_, _, _, _)
SpreadExpand(nbrs, vis, q, depth) ==
    IF nbrs = <<>> THEN [visited |-> vis, queue |-> q]
    ELSE IF Head(nbrs) \notin vis
         THEN SpreadExpand(Tail(nbrs), vis \cup {Head(nbrs)},
                           Append(q, <<Head(nbrs), depth + 1>>), depth)
         ELSE SpreadExpand(Tail(nbrs), vis, q, depth)

\* bfs_spread(G) is entered once the animation loop has ended: `done` stays True
\* only through an iteration in which each of the 5 pulls on every generator
\* raised StopIteration.
SpreadCall ==
    /\ pc = "animate"
    /\ genState = "closed"
    /\ stops >= PullsPerIteration
    /\ pc' = "spread"
    /\ sState' = "running"
    /\ sVisited' = {0}
    /\ sQueue' = <<<<0, 0>>>>
    /\ levels' = <<>>
    /\ UNCHANGED buildVars
    /\ UNCHANGED genVars
    /\ UNCHANGED frames
    /\ UNCHANGED rerunVars
    /\ UNCHANGED loopVars

\* One iteration of bfs_spread's while loop.
SpreadStep ==
    /\ pc = "spread"
    /\ sState = "running"
    /\ sQueue # <<>>
    /\ LET node == Head(sQueue)[1]
           depth == Head(sQueue)[2]
           r == SpreadExpand(adj[node], sVisited, Tail(sQueue), depth)
       IN  /\ levels' = LevelsPut(levels, depth)
           /\ sVisited' = r.visited
           /\ sQueue' = r.queue
    /\ UNCHANGED <<pc, sState>>
    /\ UNCHANGED buildVars
    /\ UNCHANGED genVars
    /\ UNCHANGED frames
    /\ UNCHANGED rerunVars
    /\ UNCHANGED loopVars

\* return levels
SpreadReturn ==
    /\ pc = "spread"
    /\ sState = "running"
    /\ sQueue = <<>>
    /\ sState' = "returned"
    /\ pc' = "done"
    /\ UNCHANGED <<sVisited, sQueue, levels>>
    /\ UNCHANGED buildVars
    /\ UNCHANGED genVars
    /\ UNCHANGED frames
    /\ UNCHANGED rerunVars
    /\ UNCHANGED loopVars

Traverse == GenNext \/ SpreadCall \/ SpreadStep \/ SpreadReturn

Next == RingStep \/ RewireStep \/ CreateGenerator \/ Traverse

Spec == Init /\ [][Next]_vars

\* ---------------------------------------------------------------- the traversals alone
\* The traversals applied to any undirected simple graph of a few nodes, with the
\* neighbours of every node in ascending or in descending insertion order, and to
\* the 8-node ring of degree 2; bfs_generator from any start node.
RECURSIVE SortedSeq(_)
SortedSeq(S) ==
    IF S = {} THEN <<>>
    ELSE LET m == CHOOSE x \in S : \A y \in S : x <= y
         IN  <<m>> \o SortedSeq(S \ {m})

Reverse(s) == [i \in 1 .. Len(s) |-> s[Len(s) + 1 - i]]

Pairs(nn) == {e \in Nodes(nn) \X Nodes(nn) : e[1] < e[2]}

GraphOf(nn, E, asc) ==
    [u \in Nodes(nn) |->
        LET nb == SortedSeq({v \in Nodes(nn) : <<u, v>> \in E \/ <<v, u>> \in E})
        IN  IF asc THEN nb ELSE Reverse(nb)]

InitFn ==
    /\ pc = "animate"
    /\ key = "Small-World"
    /\ k = MinK
    /\ \/ \E nn \in 1 .. MaxFnN : \E E \in SUBSET Pairs(nn) : \E asc \in BOOLEAN :
            /\ n = nn
            /\ adj = GraphOf(nn, E, asc)
       \/ /\ n = 8
          /\ adj = RingLattice(8, 2)
    /\ rj = 2
    /\ ru = 0
    /\ start \in Nodes(n)
    /\ GenIdle
    /\ SpreadIdle
    /\ FramesIdle
    /\ RerunIdle
    /\ LoopIdle

NextFn == Traverse

SpecFn == InitFn /\ [][NextFn]_vars

\* ---------------------------------------------------------------- graph notions of the claims
\* Nodes within one edge of S.
Grow(a, S) == S \cup UNION {Neighbors(a, u) : u \in S}

\* The connected component of s.
RECURSIVE Closure(_, _)
Closure(a, S) == IF Grow(a, S) = S THEN S ELSE Closure(a, Grow(a, S))

Component(a, s) == Closure(a, {s})

\* Shortest-path distance from the nodes of S to v, counted from d; -1 when unreachable.
RECURSIVE DistFrom(_, _, _, _)
DistFrom(a, S, v, d) ==
    IF v \in S THEN d
    ELSE IF Grow(a, S) = S THEN -1
    ELSE DistFrom(a, Grow(a, S), v, d + 1)

Dist(a, s, v) == DistFrom(a, {s}, v, 0)

\* The i-th set yielded by the generator, as it is now.
Snap(i) == heap[snapshots[i]]

LastSnap == Snap(Len(snapshots))

RECURSIVE SumCounts(_)
SumCounts(lv) == IF lv = <<>> THEN 0 ELSE Head(lv)[2] + SumCounts(Tail(lv))

\* ---------------------------------------------------------------- claims
\* C1: for every graph produced by the build and start node 0, the size of the
\* last snapshot of bfs_generator equals the sum of the per-depth counts
\* returned by bfs_spread.
C1_TotalsAgree ==
    sState = "returned" => Cardinality(LastSnap) = SumCounts(levels)

\* A rewired network that is not connected has been traversed by both.
C1_Witness ==
    /\ sState = "returned"
    /\ key # "Regular"
    /\ Cardinality(LastSnap) < n
    /\ Cardinality(LastSnap) > 1

\* C2: bfs_spread returns, for each depth d, the number of nodes at shortest-path
\* distance d from node 0, and leaves no reachable node uncounted.
C2_HistogramIsDistanceCount ==
    sState = "returned" =>
        /\ \A i \in 1 .. Len(levels) :
              levels[i][2] = Cardinality({v \in Nodes(n) : Dist(adj, 0, v) = levels[i][1]})
        /\ \A v \in Component(adj, 0) :
              \E i \in 1 .. Len(levels) : levels[i][1] = Dist(adj, 0, v)

\* The 8-node ring of degree 2 gives depths 0..4 with counts 1,2,2,2,1.
C2_Witness ==
    /\ sState = "returned"
    /\ n = 8
    /\ adj = RingLattice(8, 2)
    /\ levels = <<<<0, 1>>, <<1, 2>>, <<2, 2>>, <<3, 2>>, <<4, 1>>>>

\* C3: every snapshot of bfs_generator holds only nodes of the start node's
\* connected component, and the last one before the stream ends is that component.
C3_SnapshotsAreComponent ==
    /\ \A i \in 1 .. Len(snapshots) : Snap(i) \subseteq Component(adj, start)
    /\ genState = "closed" => LastSnap = Component(adj, start)

\* A graph that is not connected, traversed to the end from a start node with neighbours.
C3_Witness ==
    /\ genState = "closed"
    /\ Cardinality(LastSnap) > 1
    /\ LastSnap # Nodes(n)

\* The set the generator's step i started from, and the nodes first seen in snapshot i.
PrevSnap(i) == IF i = 1 THEN {start} ELSE Snap(i - 1)

NewIn(i) == IF i = 1 THEN Snap(1) ELSE Snap(i) \ Snap(i - 1)

\* C4, as claimed: the first snapshot is the visited set at the discovery of start
\* and each later snapshot holds exactly one node more than the one before it.
C4_OneNodePerSnapshot ==
    \A i \in 1 .. Len(snapshots) :
        IF i = 1 THEN Snap(1) = {start}
        ELSE Snap(i - 1) \subseteq Snap(i) /\ Cardinality(Snap(i) \ Snap(i - 1)) = 1

\* C4, amended: bfs_generator produces one snapshot per dequeued node, as many as
\* it discovers nodes; the first snapshot is start with all its neighbours, each
\* later snapshot is the one before it plus all neighbours of the next node in
\* breadth-first discovery order.
C4_OneSnapshotPerExpandedNode ==
    /\ Len(expanded) = Len(snapshots)
    /\ \A i \in 1 .. Len(snapshots) :
          /\ expanded[i] \in PrevSnap(i)
          /\ Snap(i) = PrevSnap(i) \cup Neighbors(adj, expanded[i])
          /\ \A j \in 1 .. Len(snapshots) :
                i < j => /\ expanded[i] # expanded[j]
                         /\ Dist(adj, start, expanded[i]) <= Dist(adj, start, expanded[j])
    /\ genState = "closed" =>
          /\ Len(snapshots) = Cardinality(LastSnap)
          /\ SeqToSet(expanded) = LastSnap

\* A finished stream with a snapshot that added several nodes and one that added none.
C4_Witness ==
    /\ genState = "closed"
    /\ \E i \in 1 .. Len(snapshots) : Cardinality(NewIn(i)) > 2
    /\ \E i \in 2 .. Len(snapshots) : NewIn(i) = {}

\* C5: if node u first appears in a strictly earlier snapshot than node v, then
\* the distance from start to u is at most the distance from start to v.
C5_DepthOrder ==
    \A i \in 1 .. Len(snapshots) : \A j \in 1 .. Len(snapshots) :
        i < j => \A u \in NewIn(i) : \A v \in NewIn(j) :
                    Dist(adj, start, u) <= Dist(adj, start, v)

\* A finished stream in which nodes of four different depths appeared.
C5_Witness ==
    /\ genState = "closed"
    /\ \E v \in LastSnap : Dist(adj, start, v) >= 3
    /\ Cardinality({i \in 1 .. Len(snapshots) : NewIn(i) # {}}) >= 3

\* C6: at every step of bfs_spread and in its result, the keys of levels are
\* 0, 1, ..., D in insertion order without gaps, every count is at least 1 and
\* the count of depth 0 is 1; levels is empty only before the first iteration.
C6_LevelsContiguous ==
    /\ \A i \in 1 .. Len(levels) : levels[i][1] = i - 1 /\ levels[i][2] >= 1
    /\ levels # <<>> => levels[1] = <<0, 1>>
    /\ (sState = "running" /\ levels = <<>>) => sQueue = <<<<0, 0>>>>
    /\ sState = "returned" => levels # <<>>

\* A rewired network whose histogram has several depths and a depth with several nodes.
C6_Witness ==
    /\ sState = "returned"
    /\ key = "Random"
    /\ Len(levels) >= 3
    /\ \E i \in 1 .. Len(levels) : levels[i][2] >= 3

\* C7: bfs_generator yields at most N snapshots and then ends: the snapshots
\* yielded and the nodes still queued never exceed the node count together, and
\* the queue is empty when the generator has ended.
C7_BoundedByNodeCount ==
    /\ Len(snapshots) + Len(queue) <= n
    /\ genState = "closed" => queue = <<>> /\ Len(snapshots) <= n

\* A stream that yielded N snapshots and ended, on a graph with a cycle.
C7_Witness ==
    /\ genState = "closed"
    /\ Len(snapshots) = n
    /\ n >= 3
    /\ \A u \in Nodes(n) : Degree(adj, u) >= 2

\* C8: a generator never goes back: once it has raised StopIteration it stays
\* closed and yields nothing more, and a started generator is never pending again.
C8_NoWayBack ==
    [][/\ genState = "closed" =>
            genState' = "closed" /\ snapshots' = snapshots /\ lastPull' = "stop"
       /\ genState = "suspended" => genState' # "created"]_vars

\* The generator was pulled again after it had raised StopIteration.
C8_Witness ==
    /\ genState = "closed"
    /\ stops >= 2
    /\ Len(snapshots) >= 2

\* C9: when start has no neighbours, bfs_generator yields one snapshot, {start},
\* and then ends.
C9_IsolatedStart ==
    adj[start] = <<>> =>
        /\ Len(snapshots) <= 1
        /\ \A i \in 1 .. Len(snapshots) : Snap(i) = {start}
        /\ genState = "suspended" => queue = <<>>
        /\ genState = "closed" => Len(snapshots) = 1

\* A finished stream from an isolated start node of a graph that has edges.
C9_Witness ==
    /\ adj[start] = <<>>
    /\ genState = "closed"
    /\ \E u \in Nodes(n) : adj[u] # <<>>

\* C10: no step changes a set that has been yielded.
C10_SnapshotsFrozen ==
    [][\A i \in 1 .. Len(snapshots) : heap'[snapshots[i]] = heap[snapshots[i]]]_vars

\* The generator's visited set has grown since the first snapshot was yielded.
C10_Witness ==
    /\ Len(snapshots) >= 2
    /\ heap[1] # Snap(1)
    /\ Snap(1) # {start}

\* ---------------------------------------------------------------- the traversals applied twice
\* bfs_generator(G, start) and bfs_spread(G) called again on the same graph: the
\* first application's output is kept and fresh traversal state is created.
Rerun ==
    /\ pc = "done"
    /\ run = 1
    /\ run' = 2
    /\ prevSnaps' = [i \in 1 .. Len(snapshots) |-> heap[snapshots[i]]]
    /\ prevLevels' = levels
    /\ pc' = "animate"
    /\ genState' = "created"
    /\ heap' = <<>>
    /\ queue' = <<>>
    /\ snapshots' = <<>>
    /\ expanded' = <<>>
    /\ lastPull' = "none"
    /\ stops' = 0
    /\ sState' = "idle"
    /\ sVisited' = {}
    /\ sQueue' = <<>>
    /\ levels' = <<>>
    /\ UNCHANGED start
    /\ UNCHANGED buildVars
    /\ UNCHANGED frames
    /\ UNCHANGED loopVars

NextTwo == Traverse \/ Rerun

SpecTwo == InitFn /\ [][NextTwo]_vars

IsAscending(s) == \A i \in 1 .. Len(s) : \A j \in 1 .. Len(s) : i < j => s[i] < s[j]

\* The nodes bfs_spread has dequeued so far.
SpreadDequeued == sVisited \ {sQueue[i][1] : i \in 1 .. Len(sQueue)}

\* C12, as claimed: the neighbours of every node dequeued by bfs_generator or
\* bfs_spread are iterated in ascending node-id order.
C12_AscendingOrder ==
    \A u \in SeqToSet(expanded) \cup SpreadDequeued : IsAscending(adj[u])

\* C12, amended: in both traversals the neighbours of each dequeued node are
\* examined, and the unvisited ones enqueued, in the order of the graph's
\* adjacency (the order in which the build inserted the edges).
C12_AdjacencyOrder ==
    [][/\ Len(snapshots') > Len(snapshots) =>
            LET q0 == IF genState = "created" THEN <<start>> ELSE queue
                v0 == IF genState = "created" THEN {start} ELSE heap[1]
            IN  queue' = Tail(q0) \o SelectSeq(adj[Head(q0)], LAMBDA x : x \notin v0)
       /\ (pc = "spread" /\ levels' # levels) =>
            LET new == SelectSeq(adj[Head(sQueue)[1]], LAMBDA x : x \notin sVisited)
            IN  sQueue' = Tail(sQueue) \o
                    [i \in 1 .. Len(new) |-> <<new[i], Head(sQueue)[2] + 1>>]]_vars

\* The ring of degree 4: node 0 was expanded and enqueued 1, N-1, 2, N-2 in that order,
\* in both traversals.
C12_Witness ==
    /\ key = "Regular"
    /\ n >= 6
    /\ SeqToSet(expanded) = Nodes(n)
    /\ adj[0] = <<1, n - 1, 2, n - 2>>
    /\ sState = "running"
    /\ sQueue = <<<<1, 1>>, <<n - 1, 1>>, <<2, 1>>, <<n - 2, 1>>>>

\* ---------------------------------------------------------------- the built graph
\* The neighbours of node i in the ring lattice: i-h .. i+h modulo nn, without i.
RingNeighbours(nn, h, i) ==
    {(i + d) % nn : d \in 1 .. h} \cup {(i + nn - d) % nn : d \in 1 .. h}

RECURSIVE SumDegrees(_, _)
SumDegrees(a, S) ==
    IF S = {} THEN 0
    ELSE LET u == CHOOSE x \in S : TRUE
         IN  Degree(a, u) + SumDegrees(a, S \ {u})

\* Number of edges of a graph without self-loops.
EdgeCount(a) == SumDegrees(a, DOMAIN a) \div 2

\* C13, as claimed: the Regular network is the ring lattice in which node i is
\* adjacent to exactly i+-1 .. i+-(baseDegree/2), and every node has degree
\* baseDegree, for every baseDegree the sliders can pass.
C13_RegularIsRingOfDegreeK ==
    (key = "Regular" /\ pc # "ring") =>
        \A i \in Nodes(n) :
            /\ Neighbors(adj, i) = RingNeighbours(n, k \div 2, i)
            /\ Degree(adj, i) = k

\* C14, as claimed: whatever the random choices, the built graph has
\* N * baseDegree / 2 edges.
C14_EdgeCountIsNKHalf ==
    pc # "ring" => 2 * EdgeCount(adj) = n * k

\* C15: after the ring phase and after every rewiring step the graph is simple
\* and undirected: no self-loop, no neighbour listed twice, symmetric adjacency.
C15_SimpleUndirected ==
    \A u \in Nodes(n) :
        /\ u \notin Neighbors(adj, u)
        /\ Cardinality(Neighbors(adj, u)) = Len(adj[u])
        /\ \A v \in Neighbors(adj, u) : v \in Nodes(n) /\ u \in Neighbors(adj, v)

\* A Random network after its last rewiring step, changed by the rewiring, in
\* which a node has become adjacent to all others.
C15_Witness ==
    /\ pc = "animate"
    /\ key = "Random"
    /\ adj # RingLattice(n, k)
    /\ \E u \in Nodes(n) : Degree(adj, u) = n - 1

\* C16, as claimed: with an odd baseDegree, or baseDegree >= population, the
\* build fails: no graph is built and no traversal runs.
C16_InvalidDegreeRejected ==
    (k % 2 = 1 \/ k >= n) =>
        /\ pc = "ring"
        /\ adj = EmptyGraph(n)
        /\ genState = "created"
        /\ sState = "idle"

\* ---------------------------------------------------------------- result table
\* "Steps": list(bfs_spread(G).keys())
Steps(lv) == [i \in 1 .. Len(lv) |-> lv[i][1]]

\* "Nodes Reached": [sum(list(bfs_spread(G).values())[:i+1]) for i in range(len(...))]
NodesReached(lv) == [i \in 1 .. Len(lv) |-> SumCounts(SubSeq(lv, 1, i))]

\* final_steps[k]: df_all[df_all["Network"]==k]["Steps"].iloc[-1]
FinalSteps(lv) == Steps(lv)[Len(lv)]

\* C17, as claimed: the step reported as "Steps to Reach Everyone" is a step at
\* which "Nodes Reached" equals the population.
C17_FinalStepReachesEveryone ==
    sState = "returned" =>
        \E i \in 1 .. Len(levels) :
            /\ Steps(levels)[i] = FinalSteps(levels)
            /\ NodesReached(levels)[i] = n

\* C19, as claimed: every set handed to plot_graph as visited holds only nodes
\* reachable from node 0 in that network.
C19_FramesShowReachable ==
    frames[key] \subseteq Component(adj, 0)

\* ---------------------------------------------------------------- animation loop
\* The order `for key in networks` iterates in.
KeyOrder == <<"Regular", "Small-World", "Random">>

\* next(gen) for a generator made by bfs_generator(g) (start = 0): the generator
\* afterwards, whether it yielded, and the set it yielded.
NextOf(a, g) ==
    IF g.state = "closed" THEN [gen |-> g, yielded |-> FALSE, value |-> {}]
    ELSE LET v0 == IF g.state = "created" THEN {0} ELSE g.visited
             q0 == IF g.state = "created" THEN <<0>> ELSE g.queue
         IN  IF q0 = <<>>
             THEN [gen |-> [state |-> "closed", visited |-> v0, queue |-> q0],
                   yielded |-> FALSE, value |-> {}]
             ELSE LET r == Expand(a[Head(q0)], v0, Tail(q0))
                  IN  [gen |-> [state |-> "suspended", visited |-> r.visited,
                                queue |-> r.queue],
                       yielded |-> TRUE, value |-> r.visited]

\* DoneAfter with done = True in the except branch.
DoneAfterStopSets(d, yielded) == ~yielded

\* try: visited = next(...); done = False / except StopIteration: done is left alone.
DoneAfter(d, yielded) == IF yielded THEN FALSE ELSE d

\* One pass of the innermost loop body (lines 77-82) and the loop control after it:
\* next key, next of the 5 rounds, or, after the last pull of an iteration,
\* `while not done` with `done = True` at the start of the next iteration.
AnimPull ==
    /\ aPc = "loop"
    /\ LET x == KeyOrder[aKey]
           res == NextOf(nets[x], gens[x])
           d == DoneAfter(aDone, res.yielded)
       IN  /\ gens' = [gens EXCEPT ![x] = res.gen]
           /\ frames' = [frames EXCEPT
                            ![x] = IF res.yielded THEN res.value ELSE AllNodes(nets[x])]
           /\ IF aKey < Len(KeyOrder)
              THEN aKey' = aKey + 1 /\ aRound' = aRound /\ aDone' = d /\ aPc' = aPc
              ELSE IF aRound < PullsPerIteration - 1
              THEN aKey' = 1 /\ aRound' = aRound + 1 /\ aDone' = d /\ aPc' = aPc
              ELSE /\ aKey' = 1
                   /\ aRound' = 0
                   /\ aDone' = TRUE
                   /\ aPc' = IF d THEN "exited" ELSE "loop"
    /\ UNCHANGED nets
    /\ UNCHANGED <<pc, start>>
    /\ UNCHANGED buildVars
    /\ UNCHANGED <<genState, heap, queue, snapshots, expanded, lastPull, stops>>
    /\ UNCHANGED spreadVars
    /\ UNCHANGED rerunVars

\* Graphs the loop is run on: rings of degree 2 of any size up to MaxAnimRing, and
\* every graph of up to MaxAnimSmall nodes.
AnimRings == {RingLattice(m, MinK) : m \in MinN .. MaxAnimRing}

AnimSmall == UNION {{GraphOf(nn, E, TRUE) : E \in SUBSET Pairs(nn)} : nn \in 1 .. MaxAnimSmall}

\* The loop is entered: done = False, while not done, done = True.
InitAnim ==
    /\ pc = "animate"
    /\ key = "Regular"
    /\ n = MinN
    /\ k = MinK
    /\ adj = EmptyGraph(MinN)
    /\ rj = 1
    /\ ru = 0
    /\ start = 0
    /\ GenIdle
    /\ SpreadIdle
    /\ FramesIdle
    /\ RerunIdle
    /\ \E g1 \in AnimRings : \E g2 \in AnimRings \cup AnimSmall :
       \E g3 \in AnimRings \cup AnimSmall :
            nets = [x \in Keys |-> IF x = "Regular" THEN g1
                                   ELSE IF x = "Small-World" THEN g2 ELSE g3]
    /\ gens = [x \in Keys |-> [state |-> "created", visited |-> {}, queue |-> <<>>]]
    /\ aDone = TRUE
    /\ aRound = 0
    /\ aKey = 1
    /\ aPc = "loop"

NextAnim == AnimPull

\* The script is sequential: the loop keeps taking its next step.
SpecAnim == InitAnim /\ [][NextAnim]_vars /\ WF_vars(NextAnim)

\* C18: the animation loop terminates, and it exits only when all three
\* generators are exhausted.
C18_LoopExitsWhenAllExhausted ==
    /\ [](aPc = "exited" => \A x \in Keys : gens[x].state = "closed")
    /\ <>(aPc = "exited")

\* The loop has exited after generators of very different lengths: a ring that took
\* three iterations, a graph that is not connected, and a ring done in two.
C18_Witness ==
    /\ aPc = "exited"
    /\ Cardinality(gens["Regular"].visited) >= 11
    /\ gens["Small-World"].visited # AllNodes(nets["Small-World"])
    /\ Cardinality(gens["Random"].visited) = 6
====
